---------------------------- MODULE Spec2Model ----------------------------
(***************************************************************************)
(* AeroStream: the PID control law (PID), the mock altimeter (MockSensor)  *)
(* and the simulation drivers (the main() variants).                       *)
(*                                                                         *)
(* Numbers.  A C++ double is modelled as a fixed-point number: the integer *)
(* n stands for the real n / Scale.  Sums and differences are exact;       *)
(* products and quotients are rounded to the nearest multiple of 1/Scale   *)
(* (Mul, Div).  The inputs of the controller specification are chosen on a *)
(* grid on which every product and quotient is exact.                      *)
(*                                                                         *)
(* Four specifications:                                                    *)
(*   Spec        a PID object under arbitrary calculate / reset calls,     *)
(*               next to a freshly constructed twin;                       *)
(*   SpecCli     argument parsing and set-up of the three file-logging     *)
(*               drivers;                                                  *)
(*   SpecDriver  the tick loop of the three file-logging drivers with a    *)
(*               noisy MockSensor;                                         *)
(*   SpecE2E     the noise-free closed loop, 250 ticks.                    *)
(***************************************************************************)
EXTENDS Integers, Sequences, FiniteSets, TLC

VARIABLES
    pid,            \* the PID object: gains, dt, limits, pre_error, integral
    fresh,          \* a second PID object, constructed anew at every reset
    ctor,           \* the arguments the PID object was constructed with
    last,           \* the last call on pid: operation, arguments, results
    hist,           \* bookkeeping over the calls since construction
    variant,        \* which main(): "step", "const4" or "const5"
    argv,           \* argv[1..argc-1], each a sequence of characters
    cfg,            \* main()'s locals Kp, Ki, Kd, steps, targets, switch_step
    warned,         \* whether "Invalid arguments. Using defaults." went to cerr
    pc,             \* main()'s position
    i,              \* the loop counter
    altimeter,      \* the MockSensor object
    tick,           \* the loop body's locals
    logFile,        \* the rows written to telemetry.csv after the header
    noises          \* the noise of each readValue() so far

vars == <<pid, fresh, ctor, last, hist, variant, argv, cfg, warned, pc, i,
          altimeter, tick, logFile, noises>>

pidVars == <<pid, fresh, ctor, last, hist>>
cliVars == <<variant, argv, cfg, warned>>
runVars == <<pc, i, altimeter, tick, logFile, noises>>

-----------------------------------------------------------------------------
(* Fixed-point arithmetic *)

\* the resolution of a modelled double: n stands for n / Scale
Scale == 1000

Abs(n) == IF n < 0 THEN -n ELSE n

\* n / d rounded to the nearest integer, halves upwards (d > 0)
Round(n, d) == (2 * n + d) \div (2 * d)

\* a * b on doubles
Mul(a, b) == Round(a * b, Scale)

\* a / b on doubles (b > 0)
Div(a, b) == Round(a * Scale, b)

RECURSIVE SumSeq(_)
SumSeq(s) == IF s = << >> THEN 0 ELSE Head(s) + SumSeq(Tail(s))

-----------------------------------------------------------------------------
(* PID *)

\* a mutant of PIDInit: the integral member is left out of the initialiser
\* list and starts at a stale value
PIDInit_StaleIntegral(kp, ki, kd, dt, max_output, min_output) ==
    [kp |-> kp, ki |-> ki, kd |-> kd, dt |-> dt,
     max_output |-> max_output, min_output |-> min_output,
     pre_error |-> 0, integral |-> Scale]

\* PID::PID
PIDInit(kp, ki, kd, dt, max_output, min_output) ==
    [kp |-> kp, ki |-> ki, kd |-> kd, dt |-> dt,
     max_output |-> max_output, min_output |-> min_output,
     pre_error |-> 0, integral |-> 0]

\* a mutant of Clamp: only the upper limit is applied
Clamp_UpperOnly(v, lo, hi) == IF hi < v THEN hi ELSE v

\* std::clamp(v, lo, hi), defined for lo <= hi
Clamp(v, lo, hi) == IF v < lo THEN lo ELSE IF hi < v THEN hi ELSE v

\* a mutant of PIDCalculate: the integral term is not scaled by ki
PIDCalculate_UnscaledIntegral(self, setpoint, pv) ==
    LET error      == setpoint - pv
        P          == Mul(self.kp, error)
        integral   == self.integral + Mul(error, self.dt)
        I          == integral
        derivative == Div(error - self.pre_error, self.dt)
        D          == Mul(self.kd, derivative)
        output     == P + I + D
    IN  [self  |-> [self EXCEPT !.integral = integral, !.pre_error = error],
         error |-> error,
         raw   |-> output,
         ret   |-> Clamp(output, self.min_output, self.max_output)]

\* a mutant of PIDCalculate: anti-windup, the integral is frozen while the
\* output is saturated
PIDCalculate_AntiWindup(self, setpoint, pv) ==
    LET error      == setpoint - pv
        P          == Mul(self.kp, error)
        integral   == self.integral + Mul(error, self.dt)
        I          == Mul(self.ki, integral)
        derivative == Div(error - self.pre_error, self.dt)
        D          == Mul(self.kd, derivative)
        output     == P + I + D
        clamped    == Clamp(output, self.min_output, self.max_output)
        kept       == IF clamped = output THEN integral ELSE self.integral
    IN  [self  |-> [self EXCEPT !.integral = kept, !.pre_error = error],
         error |-> error,
         raw   |-> output,
         ret   |-> clamped]

\* PID::calculate: the object after the call (self), the value returned (ret)
\* and, for observation, the locals error and output before clamping (raw)
PIDCalculate(self, setpoint, pv) ==
    LET error      == setpoint - pv
        P          == Mul(self.kp, error)
        integral   == self.integral + Mul(error, self.dt)
        I          == Mul(self.ki, integral)
        derivative == Div(error - self.pre_error, self.dt)
        D          == Mul(self.kd, derivative)
        output     == P + I + D
    IN  [self  |-> [self EXCEPT !.integral = integral, !.pre_error = error],
         error |-> error,
         raw   |-> output,
         ret   |-> Clamp(output, self.min_output, self.max_output)]

\* a mutant of PIDReset: only the integral is reset, as PID.hpp's comment
\* on reset() says
PIDReset_IntegralOnly(self) == [self EXCEPT !.integral = 0]

\* PID::reset
PIDReset(self) == [self EXCEPT !.integral = 0, !.pre_error = 0]

-----------------------------------------------------------------------------
(* Bounds and input sets of the controller specification *)

\* calculate and reset calls per behaviour
MaxOps == 4

\* gains 0, 0.5 and 2.0
GainSet == {0, 500, 2000}

\* time steps 0.1 (every driver and test) and 0.5
DtSet == {100, 500}

\* <<min_output, max_output>>: [-50, 50] (test_pid.cpp), [5, 50], [-50, -5]
LimitSet == {<<-50000, 50000>>, <<5000, 50000>>, <<-50000, -5000>>}

\* setpoints 0 and 10; measurements 0, 5 and 20
SetpointSet == {0, 10000}
PvSet == {0, 5000, 20000}

NoCall == [op |-> "none", setpoint |-> 0, pv |-> 0, error |-> 0, raw |-> 0,
           ret |-> 0, fresh_ret |-> 0]

NoHist == [ops |-> 0, since |-> 0, errSum |-> 0, resets |-> 0, dirty |-> FALSE]

\* main() before it starts: the controller specification leaves it there
IdleCli == /\ variant = "none"
           /\ argv = << >>
           /\ cfg = [steps |-> 0]
           /\ warned = FALSE

IdleRun == /\ pc = "idle"
           /\ i = 0
           /\ altimeter = [value |-> 0]
           /\ tick = [current_target |-> 0, current_alt |-> 0, motor_power |-> 0]
           /\ logFile = << >>
           /\ noises = << >>

-----------------------------------------------------------------------------
(* Spec: a PID object under arbitrary calls *)

Init ==
    /\ \E kp \in GainSet, ki \in GainSet, kd \in GainSet, dt \in DtSet,
          lim \in LimitSet :
          /\ ctor = [kp |-> kp, ki |-> ki, kd |-> kd, dt |-> dt,
                     max_output |-> lim[2], min_output |-> lim[1]]
          /\ pid = PIDInit(kp, ki, kd, dt, lim[2], lim[1])
          /\ fresh = PIDInit(kp, ki, kd, dt, lim[2], lim[1])
    /\ last = NoCall
    /\ hist = NoHist
    /\ IdleCli
    /\ IdleRun

\* pid.calculate(setpoint, pv), and the same call on the twin
Calculate ==
    /\ hist.ops < MaxOps
    /\ \E setpoint \in SetpointSet, pv \in PvSet :
          LET r == PIDCalculate(pid, setpoint, pv)
              f == PIDCalculate(fresh, setpoint, pv)
          IN  /\ pid' = r.self
              /\ fresh' = f.self
              /\ last' = [op |-> "calculate", setpoint |-> setpoint, pv |-> pv,
                          error |-> r.error, raw |-> r.raw, ret |-> r.ret,
                          fresh_ret |-> f.ret]
              /\ hist' = [hist EXCEPT !.ops = @ + 1, !.since = @ + 1,
                                      !.errSum = @ + Mul(setpoint - pv, pid.dt)]
    /\ UNCHANGED <<ctor, cliVars, runVars>>

\* pid.reset(); the twin is constructed anew from the constructor arguments
Reset ==
    /\ hist.ops < MaxOps
    /\ pid' = PIDReset(pid)
    /\ fresh' = PIDInit(ctor.kp, ctor.ki, ctor.kd, ctor.dt,
                        ctor.max_output, ctor.min_output)
    /\ last' = [NoCall EXCEPT !.op = "reset"]
    /\ hist' = [ops |-> hist.ops + 1, since |-> 0, errSum |-> 0,
                resets |-> hist.resets + 1,
                dirty |-> pid.integral # 0 /\ pid.pre_error # 0]
    /\ UNCHANGED <<ctor, cliVars, runVars>>

Next == Calculate \/ Reset

Spec == Init /\ [][Next]_vars

-----------------------------------------------------------------------------
(* Properties of the controller (Spec) *)

InLimits(v) == pid.min_output <= v /\ v <= pid.max_output

\* C1: every value calculate returns lies in [output_min, output_max]; it is
\* exactly output_max when the unclamped sum P + I + D exceeds output_max and
\* exactly output_min when the sum is below output_min.
C1_OutputWithinLimits ==
    last.op = "calculate" =>
        /\ InLimits(last.ret)
        /\ (last.raw > pid.max_output => last.ret = pid.max_output)
        /\ (last.raw < pid.min_output => last.ret = pid.min_output)

\* a call after earlier calls and a reset whose sum exceeded output_max
C1_Witness ==
    /\ last.op = "calculate"
    /\ hist.since >= 2
    /\ last.raw > pid.max_output
    /\ last.ret = pid.max_output
    /\ pid.integral # 0

\* the outputs after a reset are those of a freshly constructed controller
ResetMatchesFresh ==
    (hist.resets > 0 /\ last.op = "calculate") => last.ret = last.fresh_ret

\* reset leaves gains, time step and limits as constructed
ResetKeepsParameters ==
    hist.resets > 0 =>
        /\ pid.kp = ctor.kp /\ pid.ki = ctor.ki /\ pid.kd = ctor.kd
        /\ pid.dt = ctor.dt
        /\ pid.max_output = ctor.max_output
        /\ pid.min_output = ctor.min_output

FirstAfterReset ==
    /\ hist.resets > 0
    /\ last.op = "calculate"
    /\ hist.since = 1
    /\ last.setpoint = last.pv

\* C2 as stated: after reset, any call sequence gives the outputs of a fresh
\* controller, calculate(x, x) right after reset returns 0, and reset does
\* not change gains, time step or limits.
C2_ResetAsStated ==
    /\ ResetMatchesFresh
    /\ ResetKeepsParameters
    /\ (FirstAfterReset => last.ret = 0)

\* C2 amended: as C2, but calculate(x, x) right after reset returns 0 clamped
\* into the limits: 0 when 0 lies within them, else the limit nearest to 0.
C2_ResetEquivalentToFresh ==
    /\ ResetMatchesFresh
    /\ ResetKeepsParameters
    /\ (FirstAfterReset =>
            /\ (InLimits(0) => last.ret = 0)
            /\ (pid.min_output > 0 => last.ret = pid.min_output)
            /\ (pid.max_output < 0 => last.ret = pid.max_output))

\* calls that left state behind, a reset, then two calls whose unclamped
\* output depends on the integral and on the previous error
C2_Witness ==
    /\ hist.resets > 0
    /\ hist.dirty
    /\ last.op = "calculate"
    /\ hist.since >= 2
    /\ pid.ki # 0 /\ pid.kd # 0
    /\ last.raw = last.ret
    /\ last.ret # 0

\* C3: with gain_i = gain_d = 0 every calculate(setpoint, measured), whatever
\* the calls before it, returns clamp(gain_p x (setpoint - measured)).
C3_ProportionalOnly ==
    (last.op = "calculate" /\ pid.ki = 0 /\ pid.kd = 0) =>
        LET p == Mul(pid.kp, last.setpoint - last.pv)
        IN  last.ret = IF p < pid.min_output THEN pid.min_output
                       ELSE IF p > pid.max_output THEN pid.max_output
                       ELSE p

\* a proportional-only controller with accumulated state, output not clamped
C3_Witness ==
    /\ last.op = "calculate"
    /\ pid.ki = 0 /\ pid.kd = 0 /\ pid.kp # 0
    /\ hist.since >= 2
    /\ pid.integral # 0
    /\ last.ret # 0
    /\ last.ret = last.raw

StateFollowsCalls ==
    /\ pid.integral = hist.errSum
    /\ pid.pre_error = last.error

\* one step of the two fields: a calculate moves both, a reset zeroes both
LockstepStep ==
    \/ /\ last'.op = "calculate"
       /\ pid'.integral = pid.integral + Mul(last'.error, pid.dt)
       /\ pid'.pre_error = last'.error
    \/ /\ last'.op = "reset"
       /\ pid'.integral = 0
       /\ pid'.pre_error = 0

\* C9: every calculate, clamped or not, adds error x time_step to
\* accumulated_integral and sets previous_error to its error, so after n
\* calls since construction or reset the integral is the sum of the n
\* error x time_step products and previous_error is the last error; the two
\* fields move together and only reset zeroes them.
C9_LockstepNoAntiWindup == [](StateFollowsCalls) /\ [][LockstepStep]_vars

\* a second call whose output was clamped, with a non-zero integral
C9_Witness ==
    /\ last.op = "calculate"
    /\ hist.since >= 2
    /\ last.raw # last.ret
    /\ pid.integral # 0
    /\ pid.pre_error # 0

-----------------------------------------------------------------------------
(* MockSensor *)

\* MockSensor::MockSensor
MockSensorNew(initial_value) == [value |-> initial_value]

\* MockSensor::init: it only prints
MockSensorInit(self) == self

\* the noise of one reading, r the value rand() returned:
\* ((r % 100) / 100.0) - 0.5
Noise(r) == Div((r % 100) * Scale, 100 * Scale) - Scale \div 2

\* a mutant of MockSensorReadValue: the noise is added into the member
MockSensorReadValue_Drift(self, r) ==
    [self |-> [self EXCEPT !.value = @ + Noise(r)],
     ret  |-> self.value + Noise(r)]

\* MockSensor::readValue: the object after the call and the value returned
MockSensorReadValue(self, r) ==
    [self |-> self, ret |-> self.value + Noise(r)]

\* MockSensor::update
MockSensorUpdate(self, step_value) == [self EXCEPT !.value = @ + step_value]

-----------------------------------------------------------------------------
(* main(): the three drivers that log to telemetry.csv                     *)
(*   "step"    Kp Ki Kd steps target1 target2 switch_step, limits +-500    *)
(*   "const4"  Kp Ki Kd steps, target 100, limits +-100                    *)
(*   "const5"  Kp Ki Kd steps target_altitude, limits +-500                *)

Variants == {"step", "const4", "const5"}

\* double dt = 0.1
DriverDt == 100

\* the locals of main() as initialised
Defaults(v) ==
    IF v = "step"
    THEN [Kp |-> 600, Ki |-> 10, Kd |-> 50, steps |-> 1000,
          target1 |-> 50000, target2 |-> 100000, switch_step |-> 500]
    ELSE [Kp |-> 600, Ki |-> 10, Kd |-> 50, steps |-> 200,
          target_altitude |-> 100000]

\* the locals assigned from argv[1], argv[2], ... in that order, and whether
\* each is read with std::stod ("d") or std::stoi ("i")
Params(v) ==
    IF v = "step"
    THEN << <<"Kp", "d">>, <<"Ki", "d">>, <<"Kd", "d">>, <<"steps", "i">>,
            <<"target1", "d">>, <<"target2", "d">>, <<"switch_step", "i">> >>
    ELSE IF v = "const5"
    THEN << <<"Kp", "d">>, <<"Ki", "d">>, <<"Kd", "d">>, <<"steps", "i">>,
            <<"target_altitude", "d">> >>
    ELSE << <<"Kp", "d">>, <<"Ki", "d">>, <<"Kd", "d">>, <<"steps", "i">> >>

\* the test on argc: argc >= 8, argc >= 6, argc >= 5
EnoughArgs(v, argc) == argc >= Len(Params(v)) + 1

\* the output limit handed to the PID constructor
MaxOutput(v) == IF v = "const4" THEN 100000 ELSE 500000

DigitChars == {"0", "1", "2", "3", "4", "5", "6", "7", "8", "9"}

DigitVal(c) ==
    CASE c = "0" -> 0 [] c = "1" -> 1 [] c = "2" -> 2 [] c = "3" -> 3
      [] c = "4" -> 4 [] c = "5" -> 5 [] c = "6" -> 6 [] c = "7" -> 7
      [] c = "8" -> 8 [] c = "9" -> 9

\* the longest prefix of digits
RECURSIVE DigitPrefix(_)
DigitPrefix(tok) ==
    IF tok = << >> \/ Head(tok) \notin DigitChars THEN << >>
    ELSE <<Head(tok)>> \o DigitPrefix(Tail(tok))

RECURSIVE DecimalValue(_)
DecimalValue(ds) ==
    IF ds = << >> THEN 0
    ELSE 10 * DecimalValue(SubSeq(ds, 1, Len(ds) - 1)) + DigitVal(ds[Len(ds)])

\* 10^n
RECURSIVE Pow10(_)
Pow10(n) == IF n = 0 THEN 1 ELSE 10 * Pow10(n - 1)

\* the string without a leading minus sign, and the sign
Unsigned(tok) == IF tok # << >> /\ Head(tok) = "-" THEN Tail(tok) ELSE tok
SignOf(tok) == IF tok # << >> /\ Head(tok) = "-" THEN -1 ELSE 1

\* std::stoi: an optional sign and the longest run of digits; what follows is
\* ignored; std::invalid_argument when there is no digit
Stoi(tok) ==
    LET ds == DigitPrefix(Unsigned(tok))
    IN  IF ds = << >> THEN [throws |-> TRUE, val |-> 0]
        ELSE [throws |-> FALSE, val |-> SignOf(tok) * DecimalValue(ds)]

\* std::stod: an optional sign, digits, and an optional point and digits;
\* what follows is ignored; std::invalid_argument when there is no digit
Stod(tok) ==
    LET body == Unsigned(tok)
        ds   == DigitPrefix(body)
        rest == SubSeq(body, Len(ds) + 1, Len(body))
        fs   == IF rest # << >> /\ Head(rest) = "."
                THEN DigitPrefix(Tail(rest)) ELSE << >>
    IN  IF ds = << >> /\ fs = << >> THEN [throws |-> TRUE, val |-> 0]
        ELSE [throws |-> FALSE,
              val |-> SignOf(tok) * (DecimalValue(ds) * Scale
                        + Round(DecimalValue(fs) * Scale, Pow10(Len(fs))))]

Convert(type, tok) == IF type = "i" THEN Stoi(tok) ELSE Stod(tok)

\* the body of the try block from its k-th assignment on: each assignment
\* takes effect before the next conversion runs, a throwing conversion ends
\* the block
RECURSIVE TryParse(_, _, _, _)
TryParse(v, args, c, k) ==
    IF k > Len(Params(v)) THEN [cfg |-> c, threw |-> FALSE]
    ELSE LET r == Convert(Params(v)[k][2], args[k])
         IN  IF r.throws THEN [cfg |-> c, threw |-> TRUE]
             ELSE TryParse(v, args, [c EXCEPT ![Params(v)[k][1]] = r.val], k + 1)

\* a mutant of TargetAt: the switch happens one tick late
TargetAt_Late(v, c, idx) ==
    IF v = "step"
    THEN IF idx <= c.switch_step THEN c.target1 ELSE c.target2
    ELSE c.target_altitude

\* the target of tick idx: (i < switch_step) ? target1 : target2, or the
\* constant target_altitude
TargetAt(v, c, idx) ==
    IF v = "step"
    THEN IF idx < c.switch_step THEN c.target1 ELSE c.target2
    ELSE c.target_altitude

\* a mutant of LoopCond: one tick too many
LoopCond_OffByOne(idx, steps) == idx <= steps

\* the loop condition i < steps
LoopCond(idx, steps) == idx < steps

\* the row written to telemetry.csv
LogRow(idx, t) ==
    [time |-> idx * DriverDt, target |-> t.current_target,
     actual |-> t.current_alt, output |-> t.motor_power]

NoTick == [current_target |-> 0, current_alt |-> 0, motor_power |-> 0]

\* the PID object before its constructor has run
Unconstructed == [kp |-> 0, ki |-> 0, kd |-> 0, dt |-> 0, max_output |-> 0,
                  min_output |-> 0, pre_error |-> 0, integral |-> 0]

\* steps 2 and 3 of main(): the test on argc and the try block
ParseArgs ==
    /\ pc = "parse"
    /\ IF EnoughArgs(variant, Len(argv) + 1)
       THEN LET r == TryParse(variant, argv, cfg, 1)
            IN  /\ cfg' = r.cfg
                /\ warned' = r.threw
       ELSE UNCHANGED <<cfg, warned>>
    /\ pc' = "setup"
    /\ UNCHANGED <<pidVars, variant, argv, i, altimeter, tick, logFile, noises>>

\* the set-up: the log file and its header, dt, the PID object, the sensor
\* and its init()
Setup ==
    /\ pc = "setup"
    /\ logFile' = << >>
    /\ pid' = PIDInit(cfg.Kp, cfg.Ki, cfg.Kd, DriverDt,
                      MaxOutput(variant), -MaxOutput(variant))
    /\ ctor' = [kp |-> cfg.Kp, ki |-> cfg.Ki, kd |-> cfg.Kd, dt |-> DriverDt,
                max_output |-> MaxOutput(variant),
                min_output |-> -MaxOutput(variant)]
    /\ altimeter' = MockSensorInit(MockSensorNew(0))
    /\ i' = 0
    /\ pc' = "loop"
    /\ UNCHANGED <<fresh, last, hist, cliVars, tick, noises>>

\* the head of the for loop when i < steps, and the target of the tick
LoopEnter ==
    /\ pc = "loop"
    /\ LoopCond(i, cfg.steps)
    /\ tick' = [tick EXCEPT !.current_target = TargetAt(variant, cfg, i)]
    /\ pc' = "read"
    /\ UNCHANGED <<pidVars, cliVars, i, altimeter, logFile, noises>>

\* the head of the for loop when i >= steps: logFile.close(), return 0
LoopExit ==
    /\ pc = "loop"
    /\ ~LoopCond(i, cfg.steps)
    /\ pc' = "done"
    /\ UNCHANGED <<pidVars, cliVars, i, altimeter, tick, logFile, noises>>

\* values of rand() the model draws from
RandSet == {0, 50, 199}

\* current_alt = altimeter.readValue()
Read ==
    /\ pc = "read"
    /\ \E r \in RandSet :
          LET res == MockSensorReadValue(altimeter, r)
          IN  /\ altimeter' = res.self
              /\ tick' = [tick EXCEPT !.current_alt = res.ret]
              /\ noises' = Append(noises, Noise(r))
    /\ pc' = "calc"
    /\ UNCHANGED <<pidVars, cliVars, i, logFile>>

\* motor_power = pid.calculate(current_target, current_alt)
Calc ==
    /\ pc = "calc"
    /\ LET r == PIDCalculate(pid, tick.current_target, tick.current_alt)
       IN  /\ pid' = r.self
           /\ tick' = [tick EXCEPT !.motor_power = r.ret]
           /\ last' = [op |-> "calculate", setpoint |-> tick.current_target,
                       pv |-> tick.current_alt, error |-> r.error,
                       raw |-> r.raw, ret |-> r.ret, fresh_ret |-> r.ret]
    /\ pc' = "update"
    /\ UNCHANGED <<fresh, ctor, hist, cliVars, i, altimeter, logFile, noises>>

\* altimeter.update(motor_power * dt)
Update ==
    /\ pc = "update"
    /\ altimeter' = MockSensorUpdate(altimeter, Mul(tick.motor_power, DriverDt))
    /\ pc' = "log"
    /\ UNCHANGED <<pidVars, cliVars, i, tick, logFile, noises>>

\* logFile << i * dt << "," << ... << "\n", then i++
Log ==
    /\ pc = "log"
    /\ logFile' = Append(logFile, LogRow(i, tick))
    /\ i' = i + 1
    /\ pc' = "loop"
    /\ UNCHANGED <<pidVars, cliVars, altimeter, tick, noises>>

Loop == LoopEnter \/ Read \/ Calc \/ Update \/ Log \/ LoopExit

NotStarted ==
    /\ pid = Unconstructed
    /\ fresh = Unconstructed
    /\ ctor = [kp |-> 0, ki |-> 0, kd |-> 0, dt |-> 0, max_output |-> 0,
               min_output |-> 0]
    /\ last = NoCall
    /\ hist = NoHist
    /\ i = 0
    /\ altimeter = [value |-> 0]
    /\ tick = NoTick
    /\ logFile = << >>
    /\ noises = << >>

-----------------------------------------------------------------------------
(* SpecCli: argument parsing and set-up *)

\* arguments on the command line
MaxArgs == 8

\* the strings an argument is drawn from: "2", "x", "7x"
TokSet == { <<"2">>, <<"x">>, <<"7", "x">> }

ArgvSet == UNION { [1..n -> TokSet] : n \in 0..MaxArgs }

InitCli ==
    /\ variant \in Variants
    /\ argv \in ArgvSet
    /\ cfg = Defaults(variant)
    /\ warned = FALSE
    /\ pc = "parse"
    /\ NotStarted

NextCli == ParseArgs \/ Setup

SpecCli == InitCli /\ [][NextCli]_vars

-----------------------------------------------------------------------------
(* SpecDriver: whole runs of a few ticks with a noisy sensor *)

\* ticks per run
MaxSteps == 4

DigitChr(d) ==
    CASE d = 0 -> "0" [] d = 1 -> "1" [] d = 2 -> "2" [] d = 3 -> "3"
      [] d = 4 -> "4" [] d = 5 -> "5" [] d = 6 -> "6" [] d = 7 -> "7"
      [] d = 8 -> "8" [] d = 9 -> "9"

\* the decimal spelling of an integer, as typed on a command line
RECURSIVE NatStr(_)
NatStr(n) == IF n < 10 THEN <<DigitChr(n)>>
             ELSE NatStr(n \div 10) \o <<DigitChr(n % 10)>>

IntStr(n) == IF n < 0 THEN <<"-">> \o NatStr(-n) ELSE NatStr(n)

\* the gains on the command line: 0.6 0.01 0.05
GainArgs == << <<"0", ".", "6">>, <<"0", ".", "0", "1">>, <<"0", ".", "0", "5">> >>

\* the command lines of the runs: steps from -1 to MaxSteps, and for the
\* step-change driver targets 50 and 100 and a switch tick from -1 to
\* MaxSteps + 1
DriverArgv(v) ==
    IF v = "step"
    THEN { GainArgs \o <<IntStr(n), NatStr(50), NatStr(100), IntStr(sw)>> :
             n \in -1..MaxSteps, sw \in -1..(MaxSteps + 1) }
    ELSE IF v = "const5"
    THEN { GainArgs \o <<IntStr(n), NatStr(100)>> : n \in -1..MaxSteps }
    ELSE { GainArgs \o <<IntStr(n)>> : n \in -1..MaxSteps }

InitDriver ==
    /\ variant \in Variants
    /\ argv \in DriverArgv(variant)
    /\ cfg = Defaults(variant)
    /\ warned = FALSE
    /\ pc = "parse"
    /\ NotStarted

NextDriver == ParseArgs \/ Setup \/ Loop

SpecDriver == InitDriver /\ [][NextDriver]_vars

-----------------------------------------------------------------------------
(* SpecE2E: the closed loop without sensor noise, 250 ticks, constant      *)
(* target 100, PID(0.6, 0.01, 0.05, 0.1, 100, -100)                        *)

\* for (int i = 0; i < 250; i++)
E2ETicks == 250

\* the measurement without a sensor in between: the altitude itself is
\* handed to pid.calculate
ReadNoiseFree ==
    /\ pc = "read"
    /\ tick' = [tick EXCEPT !.current_alt = altimeter.value]
    /\ noises' = Append(noises, 0)
    /\ pc' = "calc"
    /\ UNCHANGED <<pidVars, cliVars, i, altimeter, logFile>>

InitE2E ==
    /\ variant = "const4"
    /\ argv = GainArgs \o <<NatStr(E2ETicks)>>
    /\ cfg = Defaults(variant)
    /\ warned = FALSE
    /\ pc = "parse"
    /\ NotStarted

NextE2E ==
    ParseArgs \/ Setup \/ LoopEnter \/ ReadNoiseFree \/ Calc \/ Update \/ Log
        \/ LoopExit

SpecE2E == InitE2E /\ [][NextE2E]_vars

-----------------------------------------------------------------------------
(* Properties of the drivers *)

Rows == 1..Len(logFile)

\* C5: in the step-change driver the target handed to the controller and
\* written to the row of tick i is target1 when i < switch_tick and target2
\* when i >= switch_tick.
C5_ScheduleSwitching ==
    variant = "step" =>
        /\ \A k \in Rows :
              logFile[k].target = IF k - 1 < cfg.switch_step THEN cfg.target1
                                  ELSE cfg.target2
        /\ pc \in {"update", "log"} =>
              last.setpoint = IF i < cfg.switch_step THEN cfg.target1
                              ELSE cfg.target2

\* a finished run that switched after its first tick and before its last
C5_Witness ==
    /\ variant = "step"
    /\ pc = "done"
    /\ cfg.switch_step >= 2
    /\ Len(logFile) > cfg.switch_step
    /\ logFile[cfg.switch_step].target = cfg.target1
    /\ logFile[cfg.switch_step + 1].target = cfg.target2
    /\ cfg.target1 # cfg.target2

\* one row per completed tick, row i at time i x time_step, all times
\* different, and tick_count rows at the end
TelemetryShape ==
    /\ Len(logFile) = i
    /\ \A k \in Rows : logFile[k].time = (k - 1) * DriverDt
    /\ \A j, k \in Rows : j # k => logFile[j].time # logFile[k].time
    /\ pc = "done" => Len(logFile) = IF cfg.steps > 0 THEN cfg.steps ELSE 0

\* a step leaves the rows alone or appends one row
AppendOnlyStep ==
    \/ logFile' = logFile
    \/ /\ Len(logFile') = Len(logFile) + 1
       /\ SubSeq(logFile', 1, Len(logFile)) = logFile

\* C6: telemetry is append-only with exactly one row per tick in tick order:
\* the rows are those of ticks 0..k-1, row i carries time i x time_step, no
\* two rows share a time, earlier rows never change, and a completed run has
\* tick_count rows (none when tick_count <= 0).
C6_TelemetryAppendOnly == [](TelemetryShape) /\ [][AppendOnlyStep]_vars

\* a finished run of at least three ticks
C6_Witness ==
    /\ pc = "done"
    /\ cfg.steps >= 3
    /\ Len(logFile) = cfg.steps
    /\ logFile[3].time = 2 * DriverDt

\* the k-th argument makes its conversion throw
Unparsable(k) == Convert(Params(variant)[k][2], argv[k]).throws

\* C7: when the number of arguments is not the driver's arity, or an
\* argument is unparsable, every parameter has its default, nothing parsed
\* before the failing argument is kept, and a warning went to standard error.
C7_DefaultsWholesale ==
    (/\ pc # "parse"
     /\ \/ Len(argv) # Len(Params(variant))
        \/ \E k \in 1..Len(argv) : k <= Len(Params(variant)) /\ Unparsable(k))
    => (cfg = Defaults(variant) /\ warned)

\* the motion the first n rows' outputs caused: the sum of output x dt
RECURSIVE Moved(_)
Moved(n) == IF n = 0 THEN 0
            ELSE Moved(n - 1) + Mul(logFile[n].output, DriverDt)

\* true_value is the initial 0 plus the motion of the ticks so far, and the
\* measurement of a tick is the motion of the ticks before it plus its noise
SensorIntegratesOutputs ==
    /\ altimeter.value = Moved(Len(logFile))
          + (IF pc = "log" THEN Mul(tick.motor_power, DriverDt) ELSE 0)
    /\ \A k \in Rows : logFile[k].actual = Moved(k - 1) + noises[k]

\* true_value changes only in the update step, by output x time_step
SensorFrameStep ==
    altimeter' # altimeter =>
        /\ pc = "update"
        /\ altimeter'.value = altimeter.value + Mul(tick.motor_power, DriverDt)

\* C10: true_value changes only through apply_update: read and initialize
\* leave it unchanged, each apply_update(delta) adds delta, one
\* apply_update(output x time_step) happens per tick after the read and the
\* calculate, so after k ticks true_value is the initial value plus the sum
\* of the first k outputs x time_step, and the measurement of tick i reflects
\* only the outputs of the ticks before i.
C10_SensorFrame == [](SensorIntegratesOutputs) /\ [][SensorFrameStep]_vars

\* a finished run of at least two ticks with noisy readings
C10_Witness ==
    /\ pc = "done"
    /\ Len(logFile) >= 2
    /\ noises[1] # 0 /\ noises[2] # 0
    /\ altimeter.value # 0
    /\ logFile[2].actual # logFile[1].actual

-----------------------------------------------------------------------------
(* Properties of the noise-free closed loop (SpecE2E) *)

ErrorAt(k) == Abs(logFile[k].target - logFile[k].actual)

\* no tick moves the measurement by more than output_max x time_step
BoundedSteps ==
    \A k \in Rows : k > 1 =>
        Abs(logFile[k].actual - logFile[k - 1].actual)
            <= Mul(pid.max_output, DriverDt)

\* the last tick is closer to the target than the first
EndsCloser == pc = "done" => ErrorAt(Len(logFile)) < ErrorAt(1)

\* C8 as stated: |target - measured| never increases from one tick to the
\* next, each tick moves the measurement by at most output_max x time_step,
\* and the last tick's |target - measured| is smaller than the first's.
C8_MonotoneConvergence ==
    /\ \A k \in Rows : k > 1 => ErrorAt(k) <= ErrorAt(k - 1)
    /\ BoundedSteps
    /\ EndsCloser

\* C8 amended: |target - measured| never increases from one tick to the next
\* as long as the measurement has not passed the target; the measurement
\* then overshoots 100.0 by less than 3 and is above the target at the last
\* tick; each tick moves it by at most output_max x time_step; the last
\* tick's |target - measured| is smaller than the first's.
C8_ConvergenceWithOvershoot ==
    /\ \A k \in Rows :
          (k > 1 /\ logFile[k].actual <= logFile[k].target)
              => ErrorAt(k) <= ErrorAt(k - 1)
    /\ \A k \in Rows : logFile[k].actual < logFile[k].target + 3 * Scale
    /\ pc = "done" => logFile[Len(logFile)].actual > logFile[Len(logFile)].target
    /\ BoundedSteps
    /\ EndsCloser

\* the finished run of 250 ticks, the first tick saturated, the target passed
C8_Witness ==
    /\ pc = "done"
    /\ Len(logFile) = E2ETicks
    /\ logFile[1].output = pid.max_output
    /\ \E k \in Rows : logFile[k].actual > logFile[k].target

=============================================================================
